---- MODULE Spec2Model ----
(***************************************************************************)
(* A model of api-server/apiserver.py: the Registry class, which reads a   *)
(* tree of JSON documents below a fixed root and resolves packages, SDK    *)
(* links, apps and marketing slugs.                                        *)
(*                                                                         *)
(* A Python string is a sequence of symbols.  The symbols "/", ":", ".",   *)
(* "+" and "-" and the digits are single characters; every other symbol    *)
(* ("a", "latest", ".json", "packages", ...) is a run of characters that   *)
(* holds none of "/" and ":" and is neither "." nor "..".                  *)
(***************************************************************************)
EXTENDS Integers, Sequences, FiniteSets, TLC

VARIABLES
    fs,       \* the published tree: path (sequence of components) -> node
    lsorder,  \* the order in which os.listdir reports names
    call,     \* the operation last called, with its arguments
    result    \* what that call did: exception or value, and its file accesses

vars == <<fs, lsorder, call, result>>

----------------------------------------------------------------------------
(* Bounds of the model. *)

\* Longest identifier segment a caller supplies.
MaxSegLen == 3

\* Most version files in the package directory whose versions are listed.
MaxFiles == 3

----------------------------------------------------------------------------
(* Strings. *)

contains(s, c) == \E i \in 1..Len(s) : s[i] = c

first_index(s, c) == CHOOSE i \in 1..Len(s) : s[i] = c /\ \A j \in 1..(i - 1) : s[j] # c

\* str.split(sep): the pieces between the separators, empty pieces kept.
RECURSIVE split(_, _)
split(s, sep) ==
    IF ~contains(s, sep) THEN <<s>>
    ELSE LET i == first_index(s, sep)
         IN  <<SubSeq(s, 1, i - 1)>> \o split(SubSeq(s, i + 1, Len(s)), sep)

\* str.split(sep, 1) of a string that holds sep: the parts around the first one.
split_once(s, sep) ==
    LET i == first_index(s, sep)
    IN  <<SubSeq(s, 1, i - 1), SubSeq(s, i + 1, Len(s))>>

endswith(s, suffix) ==
    /\ Len(s) >= Len(suffix)
    /\ SubSeq(s, Len(s) - Len(suffix) + 1, Len(s)) = suffix

DotJson == <<".json">>

\* '%s.json' % version
json_name(version) == version \o DotJson

\* os.path.join(a, b)
path_join2(a, b) ==
    IF b # <<>> /\ b[1] = "/" THEN b
    ELSE IF a = <<>> \/ a[Len(a)] = "/" THEN a \o b
    ELSE a \o <<"/">> \o b

RECURSIVE path_join(_, _)
path_join(a, rest) ==
    IF rest = <<>> THEN a
    ELSE path_join(path_join2(a, Head(rest)), Tail(rest))

----------------------------------------------------------------------------
(* Path validation and construction. *)

Dot == <<".">>
DotDot == <<".", ".">>

\* TRUE when validate_path_component returns, FALSE when it raises
\* InvalidPathComponent.
validate_path_component_no_split(path) ==
    path # <<>> /\ path # Dot /\ path # DotDot

validate_path_component(path) ==
    /\ path # <<>>
    /\ \A i \in 1..Len(split(path, "/")) :
          LET item == split(path, "/")[i]
          IN  ~(item = Dot \/ item = DotDot \/ item = <<>>)

\* Registry.path, the root of the tree.
RootPath == <<"/", "srv">>

\* Registry._path(*args)
_path(args) ==
    IF \E i \in 1..Len(args) : ~validate_path_component(args[i])
    THEN [exc |-> "InvalidPathComponent", path |-> <<>>]
    ELSE [exc |-> "none", path |-> path_join(RootPath, args)]

----------------------------------------------------------------------------
(* The file system the operations read. *)

EmptyDoc == [k \in {} |-> <<>>]

Missing == [type |-> "missing", mode |-> "ok", doc |-> EmptyDoc]
DirNode == [type |-> "dir", mode |-> "ok", doc |-> EmptyDoc]
FileNode(d) == [type |-> "file", mode |-> "ok", doc |-> d]
Unreadable == [type |-> "file", mode |-> "unreadable", doc |-> EmptyDoc]
Garbage == [type |-> "file", mode |-> "garbage", doc |-> EmptyDoc]

\* The components the operating system walks: empty ones and "." are skipped.
components(path) ==
    SelectSeq(split(path, "/"), LAMBDA c : c # <<>> /\ c # Dot)

RootComponents == components(RootPath)

\* The node a path names in tree t.  No name of a tree is ".."; a path with
\* such a component names nothing here.
lookup(t, path) ==
    LET cs == components(path)
        n  == Len(RootComponents)
    IN  IF Len(cs) < n \/ SubSeq(cs, 1, n) # RootComponents THEN Missing
        ELSE LET r == SubSeq(cs, n + 1, Len(cs))
             IN  IF r = <<>> THEN DirNode
                 ELSE IF r \in DOMAIN t THEN t[r]
                 ELSE Missing

\* The relative path (sequence of components) of a path below the root.
relative(path) ==
    SubSeq(components(path), Len(RootComponents) + 1, Len(components(path)))

\* open(path): IOError/OSError unless the path names a readable file.
open_ok(t, path) ==
    lookup(t, path).type = "file" /\ lookup(t, path).mode # "unreadable"

\* os.path.exists(path)
exists(t, path) == lookup(t, path).type # "missing"

\* os.listdir(path) succeeds on directories only.
listdir_ok(t, path) == lookup(t, path).type = "dir"

child_names(t, path) ==
    LET r == relative(path)
    IN  { p[Len(p)] : p \in { q \in DOMAIN t :
                                 /\ Len(q) = Len(r) + 1
                                 /\ SubSeq(q, 1, Len(r)) = r } }

\* os.listdir(path): the names of the directory, in the order ord gives.
listdir(t, ord, path) ==
    LET names == child_names(t, path)
    IN  SelectSeq(ord, LAMBDA n : n \in names)

Access(fn, path) == [fn |-> fn, path |-> path]

----------------------------------------------------------------------------
(* Results of a call: an exception or a value, and the accesses made. *)

None == [kind |-> "None", data |-> EmptyDoc]

\* PackageInfo(registry, data), and the plain JSON an app record is.
PackageInfo(data) == [kind |-> "PackageInfo", data |-> data]
Json(data) == [kind |-> "json", data |-> data]

Return(v, log) == [exc |-> "none", value |-> v, log |-> log]
Raise(e, log) == [exc |-> e, value |-> None, log |-> log]

\* json.load(f): ValueError on a document that is not JSON.
json_load_ok(node) == node.mode # "garbage"

----------------------------------------------------------------------------
(* Registry operations. *)

S_packages == <<"packages">>
S_sdks == <<"sdks">>
S_apps == <<"apps">>
S_misc == <<"misc">>
S_latest == <<"latest">>

\* The try block of get_package: IOError and OSError mean "not found".
load_package_no_catch(t, registry, package, version) ==
    LET p == _path(<<S_packages, registry, package, json_name(version)>>)
    IN  IF p.exc # "none" THEN Raise(p.exc, <<>>)
        ELSE LET log == <<Access("open", p.path)>>
             IN  IF ~open_ok(t, p.path) THEN Raise("OSError", log)
                 ELSE IF ~json_load_ok(lookup(t, p.path))
                      THEN Raise("ValueError", log)
                 ELSE Return(PackageInfo(lookup(t, p.path).doc), log)

load_package(t, registry, package, version) ==
    LET p == _path(<<S_packages, registry, package, json_name(version)>>)
    IN  IF p.exc # "none" THEN Raise(p.exc, <<>>)
        ELSE LET log == <<Access("open", p.path)>>
             IN  IF ~open_ok(t, p.path) THEN Return(None, log)
                 ELSE IF ~json_load_ok(lookup(t, p.path))
                      THEN Raise("ValueError", log)
                 ELSE Return(PackageInfo(lookup(t, p.path).doc), log)

\* Registry.get_package(canonical, version)
get_package_unchecked(t, canonical, version) ==
    IF ~contains(canonical, ":") THEN Raise("ValueError", <<>>)
    ELSE load_package(t, split_once(canonical, ":")[1],
                      split_once(canonical, ":")[2], version)

get_package(t, canonical, version) ==
    IF ~contains(canonical, ":") THEN Return(None, <<>>)
    ELSE load_package(t, split_once(canonical, ":")[1],
                      split_once(canonical, ":")[2], version)

\* Registry.get_app(app_id, version)
get_app(t, app_id, version) ==
    LET p == _path(<<S_apps, app_id, json_name(version)>>)
    IN  IF p.exc # "none" THEN Raise(p.exc, <<>>)
        ELSE LET log == <<Access("open", p.path)>>
             IN  IF ~open_ok(t, p.path) THEN Return(None, log)
                 ELSE IF ~json_load_ok(lookup(t, p.path))
                      THEN Raise("ValueError", log)
                 ELSE Return(Json(lookup(t, p.path).doc), log)

----------------------------------------------------------------------------
(* Semantic versions: VersionInfo.parse and the order sorted() sorts by. *)

Digits == {"0", "1", "2", "3", "4", "5", "6", "7", "8", "9"}

DigitValue(c) ==
    CASE c = "0" -> 0 [] c = "1" -> 1 [] c = "2" -> 2 [] c = "3" -> 3
      [] c = "4" -> 4 [] c = "5" -> 5 [] c = "6" -> 6 [] c = "7" -> 7
      [] c = "8" -> 8 [] c = "9" -> 9

\* The code point of a character, for comparing strings as Python does.
Ord(c) ==
    CASE c \in Digits -> 48 + DigitValue(c)
      [] c = "-" -> 45
      [] c = "a" -> 97
      [] c = "b" -> 98

is_numeric(s) == s # <<>> /\ \A i \in 1..Len(s) : s[i] \in Digits

RECURSIVE to_int(_)
to_int(s) ==
    IF s = <<>> THEN 0
    ELSE 10 * to_int(SubSeq(s, 1, Len(s) - 1)) + DigitValue(s[Len(s)])

\* The text before the build metadata, and the build metadata.
without_build(s) == IF contains(s, "+") THEN split_once(s, "+")[1] ELSE s
build_of(s) == IF contains(s, "+") THEN split_once(s, "+")[2] ELSE <<>>

core_of(s) ==
    IF contains(without_build(s), "-")
    THEN split_once(without_build(s), "-")[1]
    ELSE without_build(s)

prerelease_of(s) ==
    IF contains(without_build(s), "-")
    THEN split_once(without_build(s), "-")[2]
    ELSE <<>>

\* A numeric field: digits, with no leading zero.
numeric_field(s) == is_numeric(s) /\ (Len(s) = 1 \/ s[1] # "0")

\* VersionInfo.parse(version) raises ValueError unless the text is
\* major.minor.patch[-prerelease][+build].
parse_ok(s) ==
    /\ Len(split(core_of(s), ".")) = 3
    /\ \A i \in 1..3 : numeric_field(split(core_of(s), ".")[i])
    /\ contains(without_build(s), "-") =>
          \A i \in 1..Len(split(prerelease_of(s), ".")) :
             split(prerelease_of(s), ".")[i] # <<>>
    /\ contains(s, "+") =>
          \A i \in 1..Len(split(build_of(s), ".")) :
             split(build_of(s), ".")[i] # <<>>

\* VersionInfo.parse(version)
parse(s) ==
    [major |-> to_int(split(core_of(s), ".")[1]),
     minor |-> to_int(split(core_of(s), ".")[2]),
     patch |-> to_int(split(core_of(s), ".")[3]),
     prerelease |-> prerelease_of(s),
     build |-> build_of(s)]

cmp_int(a, b) == IF a < b THEN -1 ELSE IF a > b THEN 1 ELSE 0

\* cmp of two strings: by code point, a proper prefix first.
RECURSIVE cmp_str(_, _)
cmp_str(a, b) ==
    IF a = <<>> /\ b = <<>> THEN 0
    ELSE IF a = <<>> THEN -1
    ELSE IF b = <<>> THEN 1
    ELSE IF Ord(a[1]) # Ord(b[1]) THEN cmp_int(Ord(a[1]), Ord(b[1]))
    ELSE cmp_str(Tail(a), Tail(b))

\* One pair of prerelease identifiers: numbers compare as numbers and
\* sort before text.
cmp_prerelease_tag(a, b) ==
    IF is_numeric(a) /\ is_numeric(b) THEN cmp_int(to_int(a), to_int(b))
    ELSE IF is_numeric(a) THEN -1
    ELSE IF is_numeric(b) THEN 1
    ELSE cmp_str(a, b)

\* The identifiers of two prereleases pairwise, the shorter list first.
RECURSIVE cmp_parts(_, _)
cmp_parts(a, b) ==
    IF a = <<>> \/ b = <<>> THEN cmp_int(Len(a), Len(b))
    ELSE IF cmp_prerelease_tag(Head(a), Head(b)) # 0
         THEN cmp_prerelease_tag(Head(a), Head(b))
    ELSE cmp_parts(Tail(a), Tail(b))

\* VersionInfo comparison: major, minor, patch, then the prerelease, a
\* version without one after every version with one; the build is not read.
compare(v, w) ==
    IF v.major # w.major THEN cmp_int(v.major, w.major)
    ELSE IF v.minor # w.minor THEN cmp_int(v.minor, w.minor)
    ELSE IF v.patch # w.patch THEN cmp_int(v.patch, w.patch)
    ELSE IF v.prerelease = w.prerelease THEN 0
    ELSE IF v.prerelease = <<>> THEN 1
    ELSE IF w.prerelease = <<>> THEN -1
    ELSE cmp_parts(split(v.prerelease, "."), split(w.prerelease, "."))

\* Insertion of x into a list sorted by key, after the items not greater.
RECURSIVE insert_sorted(_, _)
insert_sorted(sorted_list, x) ==
    IF sorted_list = <<>> THEN <<x>>
    ELSE IF compare(parse(x), parse(Head(sorted_list))) < 0
         THEN <<x>> \o sorted_list
    ELSE <<Head(sorted_list)>> \o insert_sorted(Tail(sorted_list), x)

\* sorted(items, key=VersionInfo.parse): a stable sort of the items in the
\* order they are iterated.
sorted_unsorted(items) == items

RECURSIVE sorted_versions(_)
sorted_versions(items) ==
    IF items = <<>> THEN <<>>
    ELSE insert_sorted(sorted_versions(SubSeq(items, 1, Len(items) - 1)),
                       items[Len(items)])


----------------------------------------------------------------------------
(* Registry operations that list, walk and resolve. *)

List(items) == [kind |-> "list", data |-> items]
Dict(map) == [kind |-> "dict", data |-> map]

\* The loop of get_package_versions over the names not yet read: rv is the
\* set collected so far.  open, json.load and ['version'] are not guarded.
RECURSIVE read_versions(_, _, _, _, _, _)
read_versions(t, registry, package, names, rv, log) ==
    IF names = <<>> THEN [exc |-> "none", rv |-> rv, log |-> log]
    ELSE IF ~endswith(Head(names), DotJson)
         THEN read_versions(t, registry, package, Tail(names), rv, log)
    ELSE LET p == _path(<<S_packages, registry, package, Head(names)>>)
         IN  IF p.exc # "none" THEN [exc |-> p.exc, rv |-> rv, log |-> log]
             ELSE LET log2 == Append(log, Access("open", p.path))
                      node == lookup(t, p.path)
                  IN  IF ~open_ok(t, p.path)
                      THEN [exc |-> "OSError", rv |-> rv, log |-> log2]
                      ELSE IF ~json_load_ok(node)
                      THEN [exc |-> "ValueError", rv |-> rv, log |-> log2]
                      ELSE IF "version" \notin DOMAIN node.doc
                      THEN [exc |-> "KeyError", rv |-> rv, log |-> log2]
                      ELSE read_versions(t, registry, package, Tail(names),
                                         rv \cup {node.doc["version"]}, log2)

\* The items of a set in the order the sequence iter meets them.
iterate(set, iter) == SelectSeq(iter, LAMBDA x : x \in set)

\* Registry.get_package_versions(canonical); iter is the order in which the
\* set rv is iterated by sorted().
get_package_versions(t, ord, canonical, iter) ==
    IF ~contains(canonical, ":") THEN Return(None, <<>>)
    ELSE LET parts == split_once(canonical, ":")
             p == _path(<<S_packages, parts[1], parts[2]>>)
         IN  IF p.exc # "none" THEN Raise(p.exc, <<>>)
             ELSE IF ~listdir_ok(t, p.path)
                  THEN Raise("OSError", <<Access("listdir", p.path)>>)
             ELSE LET r == read_versions(t, parts[1], parts[2],
                                         listdir(t, ord, p.path), {},
                                         <<Access("listdir", p.path)>>)
                  IN  IF r.exc # "none" THEN Raise(r.exc, r.log)
                      ELSE IF \E v \in r.rv : ~parse_ok(v)
                           THEN Raise("ValueError", r.log)
                      ELSE Return(List(sorted_versions(iterate(r.rv, iter))),
                                  r.log)

S_marker == <<"__NAMESPACE__">>

\* '%s:%s' % (package_registry, item)
canonical_of(registry, item) == registry \o <<":">> \o item

\* '%s:%s/%s' % (package_registry, item, subitem)
canonical_sub(registry, item, subitem) ==
    registry \o <<":">> \o item \o <<"/">> \o subitem

\* What iter_packages yields for one entry of a registry.
walk_item_always_leaf(t, ord, registry, item) ==
    <<canonical_of(registry, item)>>

walk_item(t, ord, registry, item) ==
    IF exists(t, _path(<<S_packages, registry, item, S_marker>>).path)
    THEN LET subitems == listdir(t, ord, _path(<<S_packages, registry, item>>).path)
         IN  [i \in 1..Len(subitems) |->
                 canonical_sub(registry, item, subitems[i])]
    ELSE <<canonical_of(registry, item)>>

RECURSIVE walk_items(_, _, _, _)
walk_items(t, ord, registry, items) ==
    IF items = <<>> THEN <<>>
    ELSE walk_item(t, ord, registry, Head(items))
            \o walk_items(t, ord, registry, Tail(items))

\* The outer loop of iter_packages over the registries not yet walked.
RECURSIVE walk_registries(_, _, _, _)
walk_registries(t, ord, registries, yielded) ==
    IF registries = <<>> THEN Return(List(yielded), <<>>)
    ELSE LET p == _path(<<S_packages, Head(registries)>>)
         IN  IF p.exc # "none" THEN Raise(p.exc, <<>>)
             ELSE IF ~listdir_ok(t, p.path) THEN Raise("OSError", <<>>)
             ELSE walk_registries(t, ord, Tail(registries),
                     yielded \o walk_items(t, ord, Head(registries),
                                           listdir(t, ord, p.path)))

\* Registry.iter_packages(), run to its end.
iter_packages(t, ord) ==
    LET p == _path(<<S_packages>>)
    IN  IF ~listdir_ok(t, p.path) THEN Raise("OSError", <<>>)
        ELSE walk_registries(t, ord, listdir(t, ord, p.path), <<>>)

\* rv[key] = value
dict_set_first_wins(rv, key, value) == rv @@ (key :> value)

dict_set(rv, key, value) == (key :> value) @@ rv

\* The loop of get_packages over the identifiers not yet resolved.
RECURSIVE collect_packages(_, _, _)
collect_packages(t, names, rv) ==
    IF names = <<>> THEN Return(Dict(rv), <<>>)
    ELSE LET pkg == get_package(t, Head(names), S_latest)
         IN  IF pkg.exc # "none" THEN Raise(pkg.exc, <<>>)
             ELSE IF pkg.value.kind = "None"
                  THEN collect_packages(t, Tail(names), rv)
             ELSE IF "canonical" \notin DOMAIN pkg.value.data
                  THEN Raise("KeyError", <<>>)
             ELSE collect_packages(t, Tail(names),
                     dict_set(rv, pkg.value.data["canonical"], pkg.value))

\* Registry.get_packages()
get_packages(t, ord) ==
    LET names == iter_packages(t, ord)
    IN  IF names.exc # "none" THEN names
        ELSE collect_packages(t, names.value.data, EmptyDoc)

S_canonical == "canonical"

\* The body of the try block of get_sdks and get_sdk: read the link of an
\* SDK and resolve the package it names.  IOError and OSError are caught by
\* the caller (here: the value None with caught set).
resolve_link(t, sdk_id, version) ==
    LET p == _path(<<S_sdks, sdk_id, json_name(S_latest)>>)
        node == lookup(t, p.path)
        log == <<Access("open", p.path)>>
    IN  IF p.exc # "none" THEN Raise(p.exc, <<>>)
        ELSE IF ~open_ok(t, p.path) THEN Return(None, log)
        ELSE IF ~json_load_ok(node) THEN Raise("ValueError", log)
        ELSE IF S_canonical \notin DOMAIN node.doc THEN Raise("KeyError", log)
        ELSE LET r == get_package(t, node.doc[S_canonical], version)
             IN  [r EXCEPT !.log = log \o r.log]

\* The loop of get_sdks over the links not yet read.
RECURSIVE collect_sdks(_, _, _)
collect_sdks(t, links, rv) ==
    IF links = <<>> THEN Return(Dict(rv), <<>>)
    ELSE LET pkg == resolve_link(t, Head(links), S_latest)
         IN  IF pkg.exc # "none" THEN Raise(pkg.exc, <<>>)
             ELSE IF pkg.value.kind = "None"
                  THEN collect_sdks(t, Tail(links), rv)
             ELSE collect_sdks(t, Tail(links),
                               dict_set(rv, Head(links), pkg.value))

\* Registry.get_sdks()
get_sdks(t, ord) ==
    IF ~listdir_ok(t, _path(<<S_sdks>>).path) THEN Raise("OSError", <<>>)
    ELSE collect_sdks(t, listdir(t, ord, _path(<<S_sdks>>).path), EmptyDoc)

\* Registry.get_sdk(sdk_id, version)
get_sdk(t, sdk_id, version) == resolve_link(t, sdk_id, version)

S_slugs == <<"marketing-slugs", ".json">>

\* Registry.get_marketing_slugs()
get_marketing_slugs(t) ==
    LET p == _path(<<S_misc, S_slugs>>)
        log == <<Access("open", p.path)>>
    IN  IF ~open_ok(t, p.path) THEN Raise("OSError", log)
        ELSE IF ~json_load_ok(lookup(t, p.path)) THEN Raise("ValueError", log)
        ELSE Return(Json(lookup(t, p.path).doc), log)

T_sdk == <<"sdk">>
T_package == <<"package">>
T_integration == <<"integration">>

\* data.get(key), as a truth value: the key is there and its string is not
\* empty.
truthy(data, key) == key \in DOMAIN data /\ data[key] # <<>>

Integration(package, label) ==
    [kind |-> "integration", data |-> [package |-> package, integration |-> label]]

Resolved(data, target) ==
    [kind |-> "slug", data |-> [definition |-> data, target |-> target]]

\* The integration branch of resolve_marketing_slug.
resolve_integration(t, data) ==
    IF truthy(data, "sdk") THEN get_sdk(t, data["sdk"], S_latest)
    ELSE IF truthy(data, "package") THEN get_package(t, data["package"], S_latest)
    ELSE Return(None, <<>>)

\* The branches of resolve_marketing_slug on data['type'], for a definition
\* data that the mapping holds.
resolve_definition(t, data) ==
    IF "type" \notin DOMAIN data THEN Raise("KeyError", <<>>)
    ELSE IF data["type"] = T_sdk \/ data["type"] = T_package
    THEN IF "target" \notin DOMAIN data THEN Raise("KeyError", <<>>)
         ELSE LET r == IF data["type"] = T_sdk
                       THEN get_sdk(t, data["target"], S_latest)
                       ELSE get_package(t, data["target"], S_latest)
              IN  IF r.exc # "none" THEN Raise(r.exc, r.log)
                  ELSE Return(Resolved(data, r.value), r.log)
    ELSE IF data["type"] = T_integration
    THEN LET r == resolve_integration(t, data)
         IN  IF r.exc # "none" THEN Raise(r.exc, r.log)
             ELSE IF r.value.kind = "None"
                  THEN Return(Resolved(data, None), r.log)
             ELSE IF "integration" \notin DOMAIN data
                  THEN Raise("KeyError", r.log)
             ELSE Return(Resolved(data,
                            Integration(r.value, data["integration"])), r.log)
    ELSE Return(Resolved(data, None), <<>>)

\* Registry.resolve_marketing_slug(slug)
resolve_marketing_slug(t, slug) ==
    LET slugs == get_marketing_slugs(t)
    IN  IF slugs.exc # "none" THEN slugs
        ELSE IF slug \notin DOMAIN slugs.value.data
             THEN Return(None, slugs.log)
        ELSE LET r == resolve_definition(t, slugs.value.data[slug])
             IN  [r EXCEPT !.log = slugs.log \o r.log]

----------------------------------------------------------------------------
(* Published trees. *)

A == <<"a">>
AA == <<"a", "a">>
B == <<"b">>
LatestJson == json_name(S_latest)

V_1_2_0 == <<"1", ".", "2", ".", "0">>
V_1_10_0 == <<"1", ".", "1", "0", ".", "0">>
V_1_2_0_pre == <<"1", ".", "2", ".", "0", "-", "a">>
V_1_2_0_build_a == <<"1", ".", "2", ".", "0", "+", "a">>
V_1_2_0_build_b == <<"1", ".", "2", ".", "0", "+", "b">>

\* A Package Record.
Record(canonical, version) == [canonical |-> canonical, version |-> version]

\* An SDK link document.
Link(canonical) == [canonical |-> canonical]

Dir(path) == path :> DirNode
File(path, doc) == path :> FileNode(doc)

TopDirs ==
    Dir(<<S_packages>>) @@ Dir(<<S_sdks>>) @@ Dir(<<S_apps>>) @@ Dir(<<S_misc>>)

\* All sequences over a set, up to a length.
SeqsUpTo(S, n) == UNION { [1..k -> S] : k \in 0..n }

\* The orders in which a finite set can be enumerated.
SetOrders(S) ==
    { f \in [1..Cardinality(S) -> S] : \A i, j \in 1..Cardinality(S) : f[i] = f[j] => i = j }

Idle == [op |-> "idle", args |-> <<>>]
NoResult == Return(None, <<>>)

----------------------------------------------------------------------------
(* Spec: single lookups with caller-supplied identifiers. *)

\* packages/a/aa, a leaf package, in the states a publisher can leave it.
LeafDir == <<S_packages, A, AA>>
LeafRecord(v) == Record(canonical_of(A, AA), v)
LeafVariants ==
    { TopDirs,
      Dir(LeafDir),
      Dir(LeafDir) @@ File(LeafDir \o <<LatestJson>>, LeafRecord(V_1_10_0)),
      Dir(LeafDir) @@ File(LeafDir \o <<json_name(A)>>, LeafRecord(V_1_2_0)),
      Dir(LeafDir) @@ File(LeafDir \o <<LatestJson>>, LeafRecord(V_1_10_0))
                   @@ File(LeafDir \o <<json_name(A)>>, LeafRecord(V_1_2_0)),
      Dir(LeafDir) @@ (LeafDir \o <<LatestJson>> :> Unreadable)
                   @@ File(LeafDir \o <<json_name(A)>>, LeafRecord(V_1_2_0)),
      Dir(LeafDir) @@ File(LeafDir \o <<LatestJson>>, LeafRecord(V_1_10_0))
                   @@ File(LeafDir \o <<DotJson>>, LeafRecord(V_1_2_0)) }

\* packages/a/a, a namespace with the package a:a/a in it.
SubDir == <<S_packages, A, A, A>>
NamespaceTree ==
    Dir(<<S_packages, A>>) @@ Dir(<<S_packages, A, A>>)
        @@ File(<<S_packages, A, A, S_marker>>, EmptyDoc)
        @@ Dir(SubDir)
        @@ File(SubDir \o <<LatestJson>>, Record(canonical_sub(A, A, A), V_1_2_0))
        @@ File(SubDir \o <<json_name(A)>>, Record(canonical_sub(A, A, A), V_1_2_0_pre))

\* sdks/a and the link in it.
SdkDir == <<S_sdks, A>>
SdkVariants ==
    { TopDirs,
      Dir(SdkDir),
      Dir(SdkDir) @@ File(SdkDir \o <<LatestJson>>, Link(canonical_of(A, AA))),
      Dir(SdkDir) @@ File(SdkDir \o <<LatestJson>>, Link(canonical_sub(A, A, A))),
      Dir(SdkDir) @@ File(SdkDir \o <<LatestJson>>, Link(AA)) }

\* apps/a with its latest record.
AppTree ==
    Dir(<<S_apps, A>>) @@ File(<<S_apps, A, LatestJson>>, [name |-> A])

FullLeaf ==
    Dir(LeafDir) @@ File(LeafDir \o <<LatestJson>>, LeafRecord(V_1_10_0))
                 @@ File(LeafDir \o <<json_name(A)>>, LeafRecord(V_1_2_0))

LinkToLeaf ==
    Dir(SdkDir) @@ File(SdkDir \o <<LatestJson>>, Link(canonical_of(A, AA)))

LookupTrees ==
    { TopDirs @@ NamespaceTree @@ AppTree @@ leaf @@ LinkToLeaf :
        leaf \in LeafVariants }
    \cup { TopDirs @@ NamespaceTree @@ AppTree @@ FullLeaf @@ sdk :
              sdk \in SdkVariants }

\* The names of the trees, in the one order listings report them here.
NameOrder ==
    <<A, AA, B, S_marker, LatestJson, json_name(A), json_name(B),
      json_name(<<"c">>), json_name(<<"d">>), DotJson>>

\* What callers supply: every string over the alphabet up to MaxSegLen, the
\* default version, and a few chosen values for the other arguments.
SegAlphabet == {"a", ".", "/"}
Segments == SeqsUpTo(SegAlphabet, MaxSegLen)
Versions == Segments \cup {S_latest}
FewIds == {A, AA, <<"a", "/", "a">>, <<>>, DotDot, <<"a", ":", "a">>}
FewVersions == {S_latest, A, <<>>, DotDot, <<".", ".", "/", "a">>}

LookupArgs ==
    (Segments \X FewIds \X FewVersions)
        \cup (FewIds \X Segments \X FewVersions)
        \cup (FewIds \X FewIds \X Versions)

PlainArgs ==
    (Segments \X FewVersions) \cup (FewIds \X Versions)

PathArgs ==
    { <<s>> : s \in Segments }
        \cup { <<f, s>> : f \in FewIds, s \in Segments }
        \cup { <<S_packages, s, f, LatestJson>> : f \in FewIds, s \in Segments }

Init ==
    /\ fs \in LookupTrees
    /\ lsorder = NameOrder
    /\ call = Idle
    /\ result = NoResult

Unchanged == UNCHANGED <<fs, lsorder>>

\* A direct use of Registry._path.
PathCall(args) ==
    /\ call' = [op |-> "_path", args |-> args]
    /\ result' = IF _path(args).exc # "none" THEN Raise(_path(args).exc, <<>>)
                 ELSE Return([kind |-> "path", data |-> _path(args).path], <<>>)
    /\ Unchanged

GetPackage(canonical, version) ==
    /\ call' = [op |-> "get_package", args |-> <<canonical, version>>]
    /\ result' = get_package(fs, canonical, version)
    /\ Unchanged

GetPackageVersions(canonical, iter) ==
    /\ call' = [op |-> "get_package_versions", args |-> <<canonical>>]
    /\ result' = get_package_versions(fs, lsorder, canonical, iter)
    /\ Unchanged

GetSdk(sdk_id, version) ==
    /\ call' = [op |-> "get_sdk", args |-> <<sdk_id, version>>]
    /\ result' = get_sdk(fs, sdk_id, version)
    /\ Unchanged

GetApp(app_id, version) ==
    /\ call' = [op |-> "get_app", args |-> <<app_id, version>>]
    /\ result' = get_app(fs, app_id, version)
    /\ Unchanged

\* The route handler hands the result to the client; the registry keeps
\* nothing of the call.
Respond ==
    /\ call # Idle
    /\ call' = Idle
    /\ result' = NoResult
    /\ Unchanged

\* The version strings the records of a tree hold.
versions_in(t) ==
    { t[p].doc["version"] : p \in { q \in DOMAIN t : "version" \in DOMAIN t[q].doc } }

\* No call is being served.
Ready == call = Idle

Next ==
    \/ Ready /\ \E args \in PathArgs : PathCall(args)
    \/ Ready /\ \E x \in LookupArgs : GetPackage(canonical_of(x[1], x[2]), x[3])
    \/ Ready /\ \E x \in PlainArgs : GetPackage(x[1], x[2])
    \/ Ready /\ \E x \in LookupArgs, iter \in SetOrders(versions_in(fs)) :
                   /\ x[3] = S_latest
                   /\ GetPackageVersions(canonical_of(x[1], x[2]), iter)
    \/ Ready /\ \E s \in Segments, iter \in SetOrders(versions_in(fs)) :
                   GetPackageVersions(s, iter)
    \/ Ready /\ \E x \in PlainArgs : GetSdk(x[1], x[2])
    \/ Ready /\ \E x \in PlainArgs : GetApp(x[1], x[2])
    \/ Respond

Spec == Init /\ [][Next]_vars

----------------------------------------------------------------------------
(* What the claims say of a path segment, stated without the code. *)

\* A segment is malformed when it is empty or one of its components, the
\* runs between its slashes, is empty, "." or "..".
BadSegment(s) ==
    \/ s = <<>>
    \/ \E i \in 1..(Len(s) + 1), j \in 0..Len(s) :
          /\ j >= i - 1
          /\ i = 1 \/ s[i - 1] = "/"
          /\ j = Len(s) \/ s[j + 1] = "/"
          /\ \A k \in i..j : s[k] # "/"
          /\ \/ j = i - 1
             \/ SubSeq(s, i, j) = Dot
             \/ SubSeq(s, i, j) = DotDot

\* The root and the segments, in order, with a slash between.
RECURSIVE Joined(_, _)
Joined(prefix, segments) ==
    IF segments = <<>> THEN prefix
    ELSE Joined(prefix \o <<"/">> \o Head(segments), Tail(segments))

RegistryPart(canonical) == SubSeq(canonical, 1, first_index(canonical, ":") - 1)
PackagePart(canonical) ==
    SubSeq(canonical, first_index(canonical, ":") + 1, Len(canonical))

IPC == "InvalidPathComponent"
NotFound == result.exc = "none" /\ result.value.kind = "None"

\* The file of the tree a version of a package is stored in.
VersionFile(canonical, version) ==
    <<S_packages>> \o split(RegistryPart(canonical), "/")
        \o split(PackagePart(canonical), "/") \o split(json_name(version), "/")

ReadableFile(t, file) ==
    file \in DOMAIN t /\ t[file].type = "file" /\ t[file].mode = "ok"

\* A path the registry may touch: below the root, with no empty, "." or
\* ".." component.
SafePath(path) ==
    /\ Len(path) > Len(RootPath) + 1
    /\ SubSeq(path, 1, Len(RootPath) + 1) = RootPath \o <<"/">>
    /\ ~BadSegment(SubSeq(path, Len(RootPath) + 2, Len(path)))

----------------------------------------------------------------------------
(* Claims checked under Spec. *)

\* C1: Registry._path raises InvalidPathComponent whenever a segment is
\* malformed, returning no path, and the calling operation then makes no
\* file access; with every segment well formed it returns the root joined
\* with the segments in order.  Every path an operation opens or lists is
\* below the root and free of malformed components.
C1_PathRejectsMalformedSegments ==
    /\ call.op = "_path" =>
          IF \E i \in 1..Len(call.args) : BadSegment(call.args[i])
          THEN result.exc = IPC /\ result.value.kind = "None"
          ELSE /\ result.exc = "none"
               /\ result.value.kind = "path"
               /\ result.value.data = Joined(RootPath, call.args)
    /\ ( /\ call.op \in {"get_package", "get_package_versions"}
         /\ contains(call.args[1], ":")
         /\ \/ BadSegment(RegistryPart(call.args[1]))
            \/ BadSegment(PackagePart(call.args[1]))
            \/ call.op = "get_package" /\ BadSegment(json_name(call.args[2])) )
          => result.exc = IPC /\ result.log = <<>>
    /\ ( /\ call.op = "get_app"
         /\ BadSegment(call.args[1]) \/ BadSegment(json_name(call.args[2])) )
          => result.exc = IPC /\ result.log = <<>>
    /\ (call.op = "get_sdk" /\ BadSegment(call.args[1]))
          => result.exc = IPC /\ result.log = <<>>
    /\ \A i \in 1..Len(result.log) : SafePath(result.log[i].path)

C1_Witness ==
    /\ call.op = "_path"
    /\ call.args = <<S_packages, <<"a", "/", ".">>, A, LatestJson>>
    /\ result.exc = IPC

\* C2: get_package, get_sdk and get_app raise InvalidPathComponent whenever
\* the registry part, the package part, the version, the sdk id or the app
\* id is malformed; they return neither "not found" nor a record.
C2_MalformedInputAlwaysRaises ==
    /\ ( /\ call.op = "get_package"
         /\ contains(call.args[1], ":")
         /\ \/ BadSegment(RegistryPart(call.args[1]))
            \/ BadSegment(PackagePart(call.args[1]))
            \/ BadSegment(call.args[2]) )
          => result.exc = IPC
    /\ ( /\ call.op \in {"get_sdk", "get_app"}
         /\ BadSegment(call.args[1]) \/ BadSegment(call.args[2]) )
          => result.exc = IPC

\* C3: for a well-formed canonical identifier whose package directory does
\* not exist, get_package_versions returns "not found" and does not raise;
\* no operation raises anything but InvalidPathComponent.
C3_MissingPackageIsAbsence ==
    /\ ( /\ call.op = "get_package_versions"
         /\ contains(call.args[1], ":")
         /\ ~BadSegment(RegistryPart(call.args[1]))
         /\ ~BadSegment(PackagePart(call.args[1]))
         /\ (<<S_packages>> \o split(RegistryPart(call.args[1]), "/")
                \o split(PackagePart(call.args[1]), "/")) \notin DOMAIN fs )
          => NotFound
    /\ result.exc \in {"none", IPC}

\* C8: get_package on a well-formed canonical identifier and version returns
\* the record stored in packages/<registry>/<package>/<version>.json when
\* that file is there and readable, and "not found" otherwise; the default
\* version is the file latest.json and nothing else.
C8_GetPackageReadsTheVersionFile ==
    ( /\ call.op = "get_package"
      /\ contains(call.args[1], ":")
      /\ ~BadSegment(RegistryPart(call.args[1]))
      /\ ~BadSegment(PackagePart(call.args[1]))
      /\ ~BadSegment(json_name(call.args[2])) )
       => IF ReadableFile(fs, VersionFile(call.args[1], call.args[2]))
          THEN /\ result.exc = "none"
               /\ result.value.kind = "PackageInfo"
               /\ result.value.data = fs[VersionFile(call.args[1], call.args[2])].doc
          ELSE NotFound

C8_Witness ==
    /\ call = [op |-> "get_package", args |-> <<canonical_of(A, AA), S_latest>>]
    /\ (LeafDir \o <<json_name(A)>>) \in DOMAIN fs
    /\ (LeafDir \o <<LatestJson>>) \notin DOMAIN fs
    /\ NotFound

\* C9: a canonical identifier without ':' resolves to "not found", without
\* raising, in get_package for any version, in get_package_versions, and in
\* get_sdk when the link of the SDK names such an identifier.
C9_NoColonIsNotFound ==
    /\ ( /\ call.op \in {"get_package", "get_package_versions"}
         /\ ~contains(call.args[1], ":") )
          => NotFound
    /\ ( /\ call.op = "get_sdk"
         /\ ~BadSegment(call.args[1])
         /\ LET link == <<S_sdks>> \o split(call.args[1], "/") \o <<LatestJson>>
            IN  /\ ReadableFile(fs, link)
                /\ ~contains(fs[link].doc["canonical"], ":") )
          => NotFound

C9_Witness ==
    /\ call = [op |-> "get_sdk", args |-> <<A, DotDot>>]
    /\ ReadableFile(fs, SdkDir \o <<LatestJson>>)
    /\ ~contains(fs[SdkDir \o <<LatestJson>>].doc["canonical"], ":")
    /\ NotFound

----------------------------------------------------------------------------
(* SpecVersions: the versions of one package directory, listed again and   *)
(* again on an unchanged tree.                                             *)

VersionStrings ==
    {V_1_2_0_pre, V_1_2_0, V_1_2_0_build_a, V_1_2_0_build_b, V_1_10_0}

VersionFileNames ==
    <<LatestJson, json_name(A), json_name(B), json_name(<<"c">>),
      json_name(<<"d">>)>>

\* The files of packages/a/aa: file i holds a record of version f[i], or is
\* not there when f[i] is empty.
VersionFiles(f) ==
    LET present == { i \in 1..MaxFiles : f[i] # <<>> }
        file(i) == LeafDir \o <<VersionFileNames[i]>>
    IN  [ p \in { file(i) : i \in present } |->
            FileNode(LeafRecord(f[CHOOSE i \in present : file(i) = p])) ]

\* Next to the version files the directory holds a file that is no JSON and
\* whose name does not end in .json.
VersionTrees ==
    { TopDirs @@ Dir(<<S_packages, A>>) @@ Dir(LeafDir)
        @@ ((LeafDir \o <<B>>) :> Garbage) @@ VersionFiles(f) :
        f \in [1..MaxFiles -> VersionStrings \cup {<<>>}] }

InitVersions ==
    /\ fs \in VersionTrees
    /\ lsorder = NameOrder
    /\ call = Idle
    /\ result = NoResult

NextVersions ==
    \E iter \in SetOrders(versions_in(fs)) :
        GetPackageVersions(canonical_of(A, AA), iter)

SpecVersions == InitVersions /\ [][NextVersions]_vars

\* Semantic-version precedence of the version strings above, by the rules
\* of semantic versioning: a prerelease before its release, numbers by
\* value, build metadata ignored.
Precedence(v) ==
    CASE v = V_1_2_0_pre -> 1
      [] v \in {V_1_2_0, V_1_2_0_build_a, V_1_2_0_build_b} -> 2
      [] v = V_1_10_0 -> 3

\* The text of a version up to its build metadata.
BeforeBuild(v) ==
    IF \E i \in 1..Len(v) : v[i] = "+"
    THEN SubSeq(v, 1, (CHOOSE i \in 1..Len(v) : v[i] = "+") - 1)
    ELSE v

\* The 'version' fields of the *.json files of packages/a/aa.
ListedVersions ==
    { fs[p].doc["version"] :
        p \in { q \in DOMAIN fs :
                  /\ Len(q) = Len(LeafDir) + 1
                  /\ SubSeq(q, 1, Len(LeafDir)) = LeafDir
                  /\ q[Len(q)][Len(q[Len(q)])] = ".json" } }

Listing == call = [op |-> "get_package_versions", args |-> <<canonical_of(A, AA)>>]

C4_Listed ==
    Listing =>
      /\ result.exc = "none"
      /\ result.value.kind = "list"
      /\ { result.value.data[i] : i \in 1..Len(result.value.data) } = ListedVersions
      /\ Len(result.value.data) = Cardinality(ListedVersions)
      /\ \A i, j \in 1..Len(result.value.data) :
            i < j =>
              \/ Precedence(result.value.data[i]) < Precedence(result.value.data[j])
              \/ /\ Precedence(result.value.data[i]) = Precedence(result.value.data[j])
                 /\ BeforeBuild(result.value.data[i]) = BeforeBuild(result.value.data[j])

C4_Again ==
    (Listing /\ Listing') =>
       /\ Len(result'.value.data) = Len(result.value.data)
       /\ \A i \in 1..Len(result.value.data) :
             BeforeBuild(result'.value.data[i]) = BeforeBuild(result.value.data[i])

----------------------------------------------------------------------------
(* SpecWalk: the namespace walk and the listing built from it, over trees  *)
(* with leaf packages, namespaces and colliding records.                   *)

\* Most children of the namespace directory.
MaxChildren == 1

ChildNames == SubSeq(<<A, B, <<"c">>, <<"d">>>>, 1, MaxChildren)

NamespaceDir == <<S_packages, A, A>>

\* packages/a/aa: not there, a package with or without latest.json, or a
\* plain file.
WalkLeafVariants ==
    { TopDirs,
      Dir(LeafDir) @@ File(LeafDir \o <<LatestJson>>, LeafRecord(V_1_2_0)),
      Dir(LeafDir) @@ File(LeafDir \o <<json_name(A)>>, LeafRecord(V_1_2_0)),
      File(LeafDir, EmptyDoc) }

\* A child of packages/a/a: not there ("none"), a package whose record names
\* its own path ("own"), or one whose record names a:aa ("other").
ChildTree(name, kind) ==
    LET dir == NamespaceDir \o <<name>>
    IN  IF kind = "none" THEN TopDirs
        ELSE Dir(dir) @@ File(dir \o <<LatestJson>>,
                IF kind = "own" THEN Record(canonical_sub(A, A, name), V_1_2_0)
                ELSE Record(canonical_of(A, AA), V_1_10_0))

RECURSIVE ChildrenTree(_, _)
ChildrenTree(kinds, i) ==
    IF i > Len(kinds) THEN TopDirs
    ELSE ChildTree(ChildNames[i], kinds[i]) @@ ChildrenTree(kinds, i + 1)

\* packages/a/a: not there, or a directory with children, with or without
\* the marker file.
WalkNamespaceVariants ==
    { TopDirs }
    \cup { Dir(NamespaceDir) @@ ChildrenTree(kinds, 1) @@ marker :
              kinds \in [1..MaxChildren -> {"none", "own", "other"}],
              marker \in { TopDirs, File(NamespaceDir \o <<S_marker>>, EmptyDoc) } }

\* A second registry, packages/b, whose package aa holds a record of a:aa.
WalkRegistryVariants ==
    { TopDirs,
      Dir(<<S_packages, B>>) @@ Dir(<<S_packages, B, AA>>)
         @@ File(<<S_packages, B, AA, LatestJson>>,
                 Record(canonical_of(A, AA), V_1_2_0_pre)) }

WalkTrees ==
    { TopDirs @@ Dir(<<S_packages, A>>) @@ leaf @@ ns @@ reg :
        leaf \in WalkLeafVariants, ns \in WalkNamespaceVariants,
        reg \in WalkRegistryVariants }

WalkNames == {A, AA, B, S_marker} \cup { ChildNames[i] : i \in 1..MaxChildren }

FileOrder == <<LatestJson, json_name(A), json_name(B), DotJson>>

IterPackages ==
    /\ call' = [op |-> "iter_packages", args |-> <<>>]
    /\ result' = iter_packages(fs, lsorder)
    /\ Unchanged

GetPackages ==
    /\ call' = [op |-> "get_packages", args |-> <<>>]
    /\ result' = get_packages(fs, lsorder)
    /\ Unchanged

InitWalk ==
    /\ fs \in WalkTrees
    /\ lsorder \in { order \o FileOrder : order \in SetOrders(WalkNames) }
    /\ call = Idle
    /\ result = NoResult

NextWalk == IterPackages \/ GetPackages

SpecWalk == InitWalk /\ [][NextWalk]_vars

\* The names directly below a directory of the tree.
Children(dir) ==
    { q[Len(q)] : q \in { p \in DOMAIN fs :
                            /\ Len(p) = Len(dir) + 1
                            /\ SubSeq(p, 1, Len(dir)) = dir } }

Count(seq, x) == Cardinality({ i \in 1..Len(seq) : seq[i] = x })

StartsWith(s, prefix) ==
    Len(s) >= Len(prefix) /\ SubSeq(s, 1, Len(prefix)) = prefix

Marked(r, e) == <<S_packages, r, e, S_marker>> \in DOMAIN fs

\* C7: for every registry and every entry under it, the walk yields one
\* identifier registry:entry/child per child and never registry:entry when
\* the entry holds the marker file, and registry:entry alone, with nothing
\* below it, when it does not; it yields nothing else.
C7_WalkIsStructural ==
    call.op = "iter_packages" =>
      /\ result.exc = "none"
      /\ \A r \in Children(<<S_packages>>) : \A e \in Children(<<S_packages, r>>) :
            IF Marked(r, e)
            THEN /\ \A c \in Children(<<S_packages, r, e>>) :
                       Count(result.value.data, r \o <<":">> \o e \o <<"/">> \o c) = 1
                 /\ Count(result.value.data, r \o <<":">> \o e) = 0
            ELSE /\ Count(result.value.data, r \o <<":">> \o e) = 1
                 /\ \A i \in 1..Len(result.value.data) :
                       ~StartsWith(result.value.data[i], r \o <<":">> \o e \o <<"/">>)
      /\ \A i \in 1..Len(result.value.data) :
            \E r \in Children(<<S_packages>>) : \E e \in Children(<<S_packages, r>>) :
               IF Marked(r, e)
               THEN \E c \in Children(<<S_packages, r, e>>) :
                       result.value.data[i] = r \o <<":">> \o e \o <<"/">> \o c
               ELSE result.value.data[i] = r \o <<":">> \o e

C7_Witness ==
    /\ call.op = "iter_packages"
    /\ Marked(A, A)
    /\ A \in Children(NamespaceDir)
    /\ Count(result.value.data, <<"a", ":", "a", "/", "a">>) = 1
    /\ Count(result.value.data, <<"a", ":", "a", "/", "__NAMESPACE__">>) = 1
    /\ Count(result.value.data, <<"a", ":", "a">>) = 0
    /\ Count(result.value.data, <<"a", ":", "a", "a">>) = 1

\* The latest record of a yielded identifier, when it resolves.
LatestResolves(id) == ReadableFile(fs, VersionFile(id, S_latest))
LatestRecord(id) == fs[VersionFile(id, S_latest)].doc

\* C10: get_packages maps, for the identifiers the walk yields, the
\* canonical field of each latest record that resolves to that record;
\* identifiers that resolve to nothing are skipped without failing, every
\* key equals the canonical field of its record, and of two records with
\* the same canonical the one yielded last is kept.
C10_GetPackagesKeepsLast ==
    call.op = "get_packages" =>
      /\ result.exc = "none"
      /\ result.value.kind = "dict"
      /\ LET ids == iter_packages(fs, lsorder).value.data
             found == { i \in 1..Len(ids) : LatestResolves(ids[i]) }
             rv == result.value.data
         IN  /\ DOMAIN rv = { LatestRecord(ids[i])["canonical"] : i \in found }
             /\ \A k \in DOMAIN rv :
                   LET last == CHOOSE i \in found :
                                 /\ LatestRecord(ids[i])["canonical"] = k
                                 /\ \A j \in found :
                                       LatestRecord(ids[j])["canonical"] = k => j <= i
                   IN  /\ rv[k].kind = "PackageInfo"
                       /\ rv[k].data["canonical"] = k
                       /\ rv[k].data = LatestRecord(ids[last])

C10_Witness ==
    /\ call.op = "get_packages"
    /\ result.exc = "none"
    /\ LET ids == iter_packages(fs, lsorder).value.data
       IN  /\ \E i, j \in 1..Len(ids) :
                /\ i < j
                /\ LatestResolves(ids[i]) /\ LatestResolves(ids[j])
                /\ LatestRecord(ids[i])["canonical"] = LatestRecord(ids[j])["canonical"]
                /\ LatestRecord(ids[i]) # LatestRecord(ids[j])
           /\ \E i \in 1..Len(ids) : ~LatestResolves(ids[i])
    /\ canonical_of(A, AA) \in DOMAIN result.value.data

----------------------------------------------------------------------------
(* SpecLinks: SDK links and marketing slugs, over trees whose link files   *)
(* are missing, unreadable, malformed or dangling.                         *)

C == <<"c">>
SlugName == <<"s">>
Label == <<"i">>

\* packages/a/aa with or without its latest.json.
LinkLeafVariants ==
    { Dir(LeafDir),
      Dir(LeafDir) @@ File(LeafDir \o <<LatestJson>>, LeafRecord(V_1_2_0)) }

\* sdks/a/latest.json: not there, naming a:aa, naming a package that is not
\* there, naming an identifier without ':', no JSON, JSON without the
\* canonical key, or unreadable.
LinkVariants ==
    { TopDirs,
      File(SdkDir \o <<LatestJson>>, Link(canonical_of(A, AA))),
      File(SdkDir \o <<LatestJson>>, Link(canonical_of(A, B))),
      File(SdkDir \o <<LatestJson>>, Link(AA)),
      (SdkDir \o <<LatestJson>>) :> Garbage,
      File(SdkDir \o <<LatestJson>>, [name |-> A]),
      (SdkDir \o <<LatestJson>>) :> Unreadable }

\* A second SDK, sdks/b, linked to a:aa.
SecondSdkVariants ==
    { TopDirs,
      Dir(<<S_sdks, B>>) @@ File(<<S_sdks, B, LatestJson>>, Link(canonical_of(A, AA))) }

\* The definitions a marketing slug can have.
SlugDefinitions ==
    { [type |-> T_sdk, target |-> A],
      [type |-> T_sdk, target |-> C],
      [type |-> T_package, target |-> canonical_of(A, AA)],
      [type |-> T_package, target |-> AA],
      [type |-> T_integration, sdk |-> A, integration |-> Label],
      [type |-> T_integration, package |-> canonical_of(A, AA), integration |-> Label],
      [type |-> T_integration, integration |-> Label],
      [type |-> T_integration, sdk |-> <<>>, package |-> canonical_of(A, AA),
       integration |-> Label] }

SlugFile == <<S_misc, S_slugs>>

LinkTrees ==
    { TopDirs @@ Dir(<<S_packages, A>>) @@ Dir(SdkDir) @@ leaf @@ link @@ second
        @@ File(SlugFile, SlugName :> def) :
        leaf \in LinkLeafVariants, link \in LinkVariants,
        second \in SecondSdkVariants, def \in SlugDefinitions }

GetSdks ==
    /\ call' = [op |-> "get_sdks", args |-> <<>>]
    /\ result' = get_sdks(fs, lsorder)
    /\ Unchanged

ResolveMarketingSlug(slug) ==
    /\ call' = [op |-> "resolve_marketing_slug", args |-> <<slug>>]
    /\ result' = resolve_marketing_slug(fs, slug)
    /\ Unchanged

InitLinks ==
    /\ fs \in LinkTrees
    /\ lsorder \in { order \o <<AA, S_marker>> \o FileOrder : order \in SetOrders({A, B}) }
    /\ call = Idle
    /\ result = NoResult

NextLinks ==
    \/ GetSdks
    \/ \E sdk_id \in {A, B, C}, version \in {S_latest, A} : GetSdk(sdk_id, version)
    \/ \E slug \in {SlugName, C} : ResolveMarketingSlug(slug)

SpecLinks == InitLinks /\ [][NextLinks]_vars

\* A canonical identifier whose latest record can be read.
PackageResolves(canonical) ==
    /\ contains(canonical, ":")
    /\ ~BadSegment(RegistryPart(canonical))
    /\ ~BadSegment(PackagePart(canonical))
    /\ ReadableFile(fs, VersionFile(canonical, S_latest))

LinkFile(sdk) == <<S_sdks>> \o split(sdk, "/") \o <<LatestJson>>

\* An SDK whose link is a readable link document naming such a package.
SdkResolves(sdk) ==
    /\ ~BadSegment(sdk)
    /\ ReadableFile(fs, LinkFile(sdk))
    /\ "canonical" \in DOMAIN fs[LinkFile(sdk)].doc
    /\ PackageResolves(fs[LinkFile(sdk)].doc["canonical"])

\* C6: get_sdks returns, whatever the link files hold, the mapping of every
\* SDK whose link resolves to the latest record of the package it names;
\* SDKs with a missing or invalid link are skipped.
C6_GetSdksSkipsBadLinks ==
    call.op = "get_sdks" =>
      /\ result.exc = "none"
      /\ result.value.kind = "dict"
      /\ DOMAIN result.value.data = { sdk \in Children(<<S_sdks>>) : SdkResolves(sdk) }
      /\ \A sdk \in DOMAIN result.value.data :
            result.value.data[sdk].data =
               LatestRecord(fs[LinkFile(sdk)].doc["canonical"])

\* The sdk or package a definition refers to can be resolved.
TargetResolves(def) ==
    IF def["type"] = T_sdk THEN SdkResolves(def["target"])
    ELSE IF def["type"] = T_package THEN PackageResolves(def["target"])
    ELSE IF "sdk" \in DOMAIN def /\ def["sdk"] # <<>> THEN SdkResolves(def["sdk"])
    ELSE IF "package" \in DOMAIN def /\ def["package"] # <<>>
         THEN PackageResolves(def["package"])
    ELSE FALSE

\* C5: for a slug of the mapping resolve_marketing_slug returns a result
\* with the raw definition, never raising, whose target is none exactly when
\* the sdk or package referred to cannot be resolved; for any other slug it
\* returns "not found".
C5_SlugResolutionIsTotal ==
    call.op = "resolve_marketing_slug" =>
      IF call.args[1] \in DOMAIN fs[SlugFile].doc
      THEN /\ result.exc = "none"
           /\ result.value.kind = "slug"
           /\ result.value.data.definition = fs[SlugFile].doc[call.args[1]]
           /\ (result.value.data.target.kind = "None")
                 <=> ~TargetResolves(fs[SlugFile].doc[call.args[1]])
      ELSE NotFound

====
